---- MODULE Spec2Model ----
(***************************************************************************)
(* A model of converter.py, the SVG to Android VectorDrawable converter.   *)
(*                                                                         *)
(* Python strings are sequences of one-character strings, so that length,  *)
(* indexing, prefixes, suffixes and splitting are computed as the code     *)
(* computes them.  None is the one-element sequence <<"None">>, which no   *)
(* string over the alphabets used here can equal.                          *)
(***************************************************************************)
EXTENDS Integers, Sequences, FiniteSets, TLC

VARIABLES
    pc,             \* position of the running program
    color,          \* normalize_color: argument
    colorOut,       \* normalize_color: returned value
    value,          \* convert_units: argument
    valueOut,       \* convert_units: returned value
    poly,           \* convert_polygon: the points attribute of the element
    isPolyline,     \* convert_polygon: the is_polyline argument
    polyOut,        \* convert_polygon: returned path data
    elem,           \* convert_element_to_path: argument
    pathElem,       \* convert_element_to_path: returned value
    svgRoot,        \* convert_svg_to_avd: the parsed document
    idx,            \* convert_svg_to_avd: position in svg_root.findall(".//")
    vector,         \* convert_svg_to_avd: the output element being built
    files,          \* batch_convert: os.listdir(input_dir) with each file's fate
    fi,             \* batch_convert: position in the listing
    attempts,       \* batch_convert: how often each listing entry was attempted
    written,        \* batch_convert: entries whose output file was written
    converted_count,\* batch_convert: the counter
    reported        \* batch_convert: the count printed at the end, -1 before

vars == <<pc, color, colorOut, value, valueOut, poly, isPolyline, polyOut,
          elem, pathElem, svgRoot, idx, vector, files, fi, attempts, written,
          converted_count, reported>>

(***************************************************************************)
(* Bounds of the model.                                                    *)
(***************************************************************************)
MaxColorLen == 7
MaxUnitLen == 5
MaxPointsLen == 7
MaxViewBoxLen == 7
MaxElems == 2
MaxFiles == 3

(***************************************************************************)
(* Python values and string primitives.                                    *)
(***************************************************************************)
None == <<"None">>

\* Raised exceptions are values of their own: a function that raises returns Raise.
Raise == <<"Exception">>

Digits == {"0", "1", "2", "3", "4", "5", "6", "7", "8", "9"}

HexDigits == Digits \cup {"a", "b", "c", "d", "e", "f", "A", "B", "C", "D", "E", "F"}

Whitespace == {" ", "\t", "\n", "\r"}

\* All strings over alphabet A of length at most n.
StringsUpTo(A, n) == UNION {[1..k -> A] : k \in 0..n}

\* str.lower() on one character.
LowerChar(c) ==
    CASE c = "A" -> "a" [] c = "B" -> "b" [] c = "C" -> "c" [] c = "D" -> "d"
      [] c = "E" -> "e" [] c = "F" -> "f" [] c = "G" -> "g" [] c = "N" -> "n"
      [] c = "O" -> "o" [] c = "S" -> "s" [] c = "V" -> "v" [] c = "X" -> "x"
      [] OTHER -> c

\* str.lower()
Lower(str) == [i \in 1..Len(str) |-> LowerChar(str[i])]

\* str.startswith(prefix)
StartsWith(str, prefix) ==
    /\ Len(str) >= Len(prefix)
    /\ SubSeq(str, 1, Len(prefix)) = prefix

\* str.endswith(suffix)
EndsWith(str, suffix) ==
    /\ Len(str) >= Len(suffix)
    /\ SubSeq(str, Len(str) - Len(suffix) + 1, Len(str)) = suffix

\* str.isdigit(): non-empty and every character a digit.
IsDigit(str) == Len(str) > 0 /\ \A i \in 1..Len(str) : str[i] \in Digits

\* str.replace(old, new) for a two-character old: every non-overlapping
\* occurrence, left to right.
RECURSIVE ReplaceAll2(_, _, _)
ReplaceAll2(str, old, new) ==
    IF Len(str) < 2 THEN str
    ELSE IF SubSeq(str, 1, 2) = old
         THEN new \o ReplaceAll2(SubSeq(str, 3, Len(str)), old, new)
         ELSE <<str[1]>> \o ReplaceAll2(Tail(str), old, new)

\* A slip in str.replace(c, "", 1): the count forgotten, every c removed.
RECURSIVE RemoveEvery(_, _)
RemoveEvery(str, c) ==
    IF str = <<>> THEN <<>>
    ELSE IF str[1] = c THEN RemoveEvery(Tail(str), c)
         ELSE <<str[1]>> \o RemoveEvery(Tail(str), c)

\* str.replace(c, "", 1): the first occurrence of character c removed.
RECURSIVE RemoveFirst(_, _)
RemoveFirst(str, c) ==
    IF str = <<>> THEN <<>>
    ELSE IF str[1] = c THEN Tail(str)
         ELSE <<str[1]>> \o RemoveFirst(Tail(str), c)

(***************************************************************************)
(* normalize_color                                                         *)
(***************************************************************************)
\* re.match(r"^#([0-9a-f]{n})$", color, re.IGNORECASE): "$" also matches just
\* before a final newline.
MatchHex(str, n) ==
    /\ \/ Len(str) = n + 1
       \/ Len(str) = n + 2 /\ str[n + 2] = "\n"
    /\ str[1] = "#"
    /\ \A i \in 2..(n + 1) : str[i] \in HexDigits

Transparent == <<"#", "0", "0", "0", "0", "0", "0", "0", "0">>

\* A slip in the short form's expansion: the digits are not doubled.
ExpandShortNoDoubling(c) == <<"#", c[2], c[3], c[4]>>

\* color = f"#{color[1]*2}{color[2]*2}{color[3]*2}"
ExpandShort(c) == <<"#", c[2], c[2], c[3], c[3], c[4], c[4]>>

\* if color.startswith("#00") and len(color) == 9: return "#00000000"
CollapseTransparent(c) ==
    IF StartsWith(c, <<"#", "0", "0">>) /\ Len(c) = 9 THEN Transparent ELSE c

normalize_color(c) ==
    IF c = None \/ c = <<>> \/ Lower(c) = <<"n", "o", "n", "e">>
    THEN Transparent
    ELSE LET c1 == IF MatchHex(c, 3) THEN ExpandShort(c) ELSE c
             c2 == IF MatchHex(c1, 6) THEN c1 \o <<"F", "F">> ELSE c1
         IN  CollapseTransparent(c2)

(***************************************************************************)
(* convert_units                                                           *)
(***************************************************************************)
convert_units(v) ==
    IF EndsWith(v, <<"p", "x">>)
    THEN ReplaceAll2(v, <<"p", "x">>, <<"d", "p">>)
    ELSE IF IsDigit(RemoveFirst(v, "."))
         THEN v \o <<"d", "p">>
         ELSE v

(***************************************************************************)
(* Floats.  The numeric attributes of the model are digit strings, so      *)
(* every parsed float is an integer, and every computed float is           *)
(* base + kap * KAPPA for integers base and kap: the record                *)
(* [ok |-> TRUE, base |-> b, kap |-> k].  A float whose ok is FALSE stands *)
(* for float() raising ValueError.                                         *)
(***************************************************************************)
\* KAPPA = 0.5522847498307935, as four groups of four decimal digits.
KAPPA == <<5522, 8474, 9830, 7935>>

RECURSIVE DigitsValue(_)
DigitsValue(str) ==
    IF str = <<>> THEN 0
    ELSE 10 * DigitsValue(SubSeq(str, 1, Len(str) - 1))
         + (CHOOSE d \in 0..9 : ToString(d) = str[Len(str)])

\* float(text) for the texts of the model: digit strings parse, anything
\* else (the empty string included) raises ValueError.
float(str) ==
    IF IsDigit(str)
    THEN [ok |-> TRUE, base |-> DigitsValue(str), kap |-> 0]
    ELSE [ok |-> FALSE, base |-> 0, kap |-> 0]

FAdd(a, b) == [ok |-> TRUE, base |-> a.base + b.base, kap |-> a.kap + b.kap]

FSub(a, b) == [ok |-> TRUE, base |-> a.base - b.base, kap |-> a.kap - b.kap]

\* r_val * KAPPA, for an integer r_val.
TimesKappa(a) == [ok |-> TRUE, base |-> 0, kap |-> a.base]

IsZero(a) == a.base = 0 /\ a.kap = 0

\* The decimal digits of a natural number.
RECURSIVE NatDigits(_)
NatDigits(n) ==
    IF n < 10 THEN <<ToString(n)>>
    ELSE NatDigits(n \div 10) \o <<ToString(n % 10)>>

\* A group of four decimal digits, zero padded.
Group4(n) ==
    <<ToString(n \div 1000), ToString((n \div 100) % 10),
      ToString((n \div 10) % 10), ToString(n % 10)>>

\* Trailing zeros of a fraction dropped, one digit kept.
RECURSIVE StripZeros(_)
StripZeros(ds) ==
    IF Len(ds) > 1 /\ ds[Len(ds)] = "0"
    THEN StripZeros(SubSeq(ds, 1, Len(ds) - 1))
    ELSE ds

Abs(n) == IF n < 0 THEN -n ELSE n

\* |kap| * KAPPA as <<integer part, g1, g2, g3, g4>>, sixteen decimals.
KappaMultiple(k) ==
    LET p4 == k * KAPPA[4]
        p3 == k * KAPPA[3] + p4 \div 10000
        p2 == k * KAPPA[2] + p3 \div 10000
        p1 == k * KAPPA[1] + p2 \div 10000
    IN  <<p1 \div 10000, p1 % 10000, p2 % 10000, p3 % 10000, p4 % 10000>>

\* 1 - 0.g1g2g3g4 for a non-zero fraction, as <<g1, g2, g3, g4>>.
Complement(g) ==
    LET n4 == 10000 - g[4]
        b4 == IF n4 = 10000 THEN 0 ELSE 1
        n3 == 10000 - g[3] - b4
        b3 == IF n3 = 10000 THEN 0 ELSE 1
        n2 == 10000 - g[2] - b3
        b2 == IF n2 = 10000 THEN 0 ELSE 1
        n1 == 10000 - g[1] - b2
    IN  <<n1 % 10000, n2 % 10000, n3 % 10000, n4 % 10000>>

\* The exact value sgn * (whole + 0.frac) as [neg, int, frac]: sign, integer
\* part and the sixteen decimals of its magnitude.
Magnitude(sgn, whole, frac) ==
    IF whole >= 0
    THEN [neg |-> sgn < 0 /\ (whole > 0 \/ frac # <<0, 0, 0, 0>>),
          int |-> whole, frac |-> frac]
    ELSE IF frac = <<0, 0, 0, 0>>
         THEN [neg |-> sgn > 0, int |-> -whole, frac |-> frac]
         ELSE [neg |-> sgn > 0, int |-> -whole - 1, frac |-> Complement(frac)]

\* The exact value of base + kap * KAPPA, given m = |kap| * KAPPA.
ExactWith(a, sgn, m) ==
    Magnitude(sgn, sgn * a.base + m[1], <<m[2], m[3], m[4], m[5]>>)

\* The exact value of a float.
Exact(a) ==
    ExactWith(a, IF a.kap < 0 THEN -1 ELSE 1, KappaMultiple(Abs(a.kap)))

\* round(number, 12): the last group dropped, half rounding to even.
Round12(e) ==
    LET up == \/ e.frac[4] > 5000
              \/ e.frac[4] = 5000 /\ e.frac[3] % 2 = 1
        n3 == e.frac[3] + (IF up THEN 1 ELSE 0)
        n2 == e.frac[2] + n3 \div 10000
        n1 == e.frac[1] + n2 \div 10000
    IN  [neg |-> e.neg, int |-> e.int + n1 \div 10000,
         frac |-> <<n1 % 10000, n2 % 10000, n3 % 10000>>]

\* FloatStr(x) of a float with at most twelve decimals.
Render(e) ==
    (IF e.neg THEN <<"-">> ELSE <<>>)
    \o NatDigits(e.int) \o <<".">>
    \o StripZeros(Group4(e.frac[1]) \o Group4(e.frac[2]) \o Group4(e.frac[3]))

\* FloatStr(x), which the code applies to parsed and to summed integers only.
FloatStr(a) == Render(Round12(Exact(a)))

\* s(number) = str(round(number, 12))
s(a) == Render(Round12(Exact(a)))

(***************************************************************************)
(* Elements (xml.etree.ElementTree.Element): a tag, the attribute          *)
(* dictionary (None for a key that is absent) and the children.            *)
(***************************************************************************)
AttrNames ==
    {"x", "y", "width", "height", "rx", "ry", "cx", "cy", "r",
     "x1", "y1", "x2", "y2", "points", "d", "fill", "stroke", "stroke-width",
     "fill-rule", "stroke-linecap", "viewBox"}

NoAttrib == [n \in AttrNames |-> None]

\* ET.Element(tag, attrib): a new element, which has no children.
Element(tag, attrib) ==
    [isNone |-> FALSE, tag |-> tag, attrib |-> attrib, children |-> <<>>]

\* The value None where an element is expected.
NoneElement == [isNone |-> TRUE]

\* elem.get(key, default)
Get(e, key, default) ==
    IF e.attrib[key] = None THEN default ELSE e.attrib[key]

\* bool(element), as "if path_elem:" evaluates it: None is false, and an
\* Element is a sequence of its children, false when it has none
\* (Element.__len__; Element defines no __bool__ that says otherwise).
Truth(e) == ~e.isNone /\ Len(e.children) # 0

\* " ".join(parts); also an f-string whose fields are single-space separated.
RECURSIVE Join(_)
Join(parts) ==
    IF parts = <<>> THEN <<>>
    ELSE IF Len(parts) = 1 THEN parts[1]
         ELSE parts[1] \o <<" ">> \o Join(Tail(parts))

\* elem.tag.split('}')[-1]: the text after the last "}".
RECURSIVE LocalTag(_)
LocalTag(tag) ==
    IF \E i \in 1..Len(tag) : tag[i] = "}"
    THEN LocalTag(SubSeq(tag, (CHOOSE i \in 1..Len(tag) :
                                 tag[i] = "}" /\ \A j \in 1..(i - 1) : tag[j] # "}") + 1,
                         Len(tag)))
    ELSE tag

(***************************************************************************)
(* The shape converters.  Each returns the path data, or Raise when a      *)
(* float() in it raises.                                                   *)
(***************************************************************************)
Zero == <<"0">>

\* The fields of an f-string: literal text, a float printed by str() (an
\* f-string's default) and a float printed through s().
Lit(txt) == [fmt |-> "lit", txt |-> txt, num |-> 0]

ViaStr(a) == [fmt |-> "str", txt |-> <<>>, num |-> a]

ViaS(a) == [fmt |-> "s", txt |-> <<>>, num |-> a]

FormatField(f) ==
    CASE f.fmt = "lit" -> f.txt
      [] f.fmt = "str" -> FloatStr(f.num)
      [] f.fmt = "s"   -> s(f.num)

\* An f-string whose fields are separated by single spaces.
FString(fields) == Join([i \in 1..Len(fields) |-> FormatField(fields[i])])

convert_line(line) ==
    LET x1 == Get(line, "x1", Zero)
        y1 == Get(line, "y1", Zero)
        x2 == Get(line, "x2", Zero)
        y2 == Get(line, "y2", Zero)
    IN  Join(<< <<"M">>, x1, y1, <<"L">>, x2, y2 >>)

\* rect.get("ry", "0") or rx: the default "0" is a non-empty string, so only
\* an empty ry attribute falls through to rx.
RectRy(rect, rx) ==
    LET got == Get(rect, "ry", Zero)
    IN  IF got # <<>> THEN float(got) ELSE rx

\* The path of a rectangle without rounded corners.
PlainRect(x, y, w, h) ==
    FString(<< Lit(<<"M">>), ViaStr(x), ViaStr(y), Lit(<<"H">>), ViaS(FAdd(x, w)),
               Lit(<<"V">>), ViaS(FAdd(y, h)), Lit(<<"H">>), ViaStr(x),
               Lit(<<"V">>), ViaStr(y), Lit(<<"Z">>) >>)

\* The path of a rectangle with rounded corners: r is x + w and b is y + h.
RoundedRect(x, y, w, h, rx, ry) ==
    LET r == FAdd(x, w)
        b == FAdd(y, h)
    IN  FString(<<
            Lit(<<"M">>), ViaS(FAdd(x, rx)), ViaStr(y),
            Lit(<<"L">>), ViaS(FSub(r, rx)), ViaStr(y),
            Lit(<<"Q">>), ViaStr(r), ViaStr(y), ViaStr(r), ViaS(FAdd(y, ry)),
            Lit(<<"L">>), ViaStr(r), ViaS(FSub(b, ry)),
            Lit(<<"Q">>), ViaStr(r), ViaStr(b), ViaS(FSub(r, rx)), ViaStr(b),
            Lit(<<"L">>), ViaS(FAdd(x, rx)), ViaStr(b),
            Lit(<<"Q">>), ViaStr(x), ViaStr(b), ViaStr(x), ViaS(FSub(b, ry)),
            Lit(<<"L">>), ViaStr(x), ViaS(FAdd(y, ry)),
            Lit(<<"Q">>), ViaStr(x), ViaStr(y), ViaS(FAdd(x, rx)), ViaStr(y), Lit(<<"Z">>) >>)

convert_rect(rect) ==
    LET x  == float(Get(rect, "x", Zero))
        y  == float(Get(rect, "y", Zero))
        w  == float(Get(rect, "width", Zero))
        h  == float(Get(rect, "height", Zero))
        rx == float(Get(rect, "rx", Zero))
        ry == RectRy(rect, rx)
    IN  IF ~(x.ok /\ y.ok /\ w.ok /\ h.ok /\ rx.ok /\ ry.ok) THEN Raise
        ELSE IF IsZero(rx) /\ IsZero(ry) THEN PlainRect(x, y, w, h)
        ELSE RoundedRect(x, y, w, h, rx, ry)

\* The four cubic segments shared by convert_circle (rx = ry = r_val) and
\* convert_ellipse: dx and dy are ctrl_dist_x and ctrl_dist_y.
Curves(cx, cy, rx, ry) ==
    LET dx == TimesKappa(rx)
        dy == TimesKappa(ry)
    IN  FString(<<
        Lit(<<"M">>), ViaStr(cx), ViaS(FSub(cy, ry)),
        Lit(<<"C">>), ViaS(FAdd(cx, dx)), ViaS(FSub(cy, ry)), ViaS(FAdd(cx, rx)), ViaS(FSub(cy, dy)), ViaS(FAdd(cx, rx)), ViaStr(cy),
        Lit(<<"C">>), ViaS(FAdd(cx, rx)), ViaS(FAdd(cy, dy)), ViaS(FAdd(cx, dx)), ViaS(FAdd(cy, ry)), ViaStr(cx), ViaS(FAdd(cy, ry)),
        Lit(<<"C">>), ViaS(FSub(cx, dx)), ViaS(FAdd(cy, ry)), ViaS(FSub(cx, rx)), ViaS(FAdd(cy, dy)), ViaS(FSub(cx, rx)), ViaStr(cy),
        Lit(<<"C">>), ViaS(FSub(cx, rx)), ViaS(FSub(cy, dy)), ViaS(FSub(cx, dx)), ViaS(FSub(cy, ry)), ViaStr(cx), ViaS(FSub(cy, ry)),
        Lit(<<"Z">>) >>)

convert_circle(circle) ==
    LET cx == float(Get(circle, "cx", Zero))
        cy == float(Get(circle, "cy", Zero))
        r_val == float(Get(circle, "r", Zero))
    IN  IF ~(cx.ok /\ cy.ok /\ r_val.ok) THEN Raise
        ELSE Curves(cx, cy, r_val, r_val)

convert_ellipse(ellipse) ==
    LET cx == float(Get(ellipse, "cx", Zero))
        cy == float(Get(ellipse, "cy", Zero))
        rx == float(Get(ellipse, "rx", Zero))
        ry == float(Get(ellipse, "ry", Zero))
    IN  IF ~(cx.ok /\ cy.ok /\ rx.ok /\ ry.ok) THEN Raise
        ELSE Curves(cx, cy, rx, ry)

\* re.split(r'[\s,]', points): cut at every separator character, empty
\* pieces kept.
RECURSIVE SplitEach(_, _)
SplitEach(str, seps) ==
    IF \E i \in 1..Len(str) : str[i] \in seps
    THEN LET i == CHOOSE k \in 1..Len(str) :
                      str[k] \in seps /\ \A j \in 1..(k - 1) : str[j] \notin seps
         IN  <<SubSeq(str, 1, i - 1)>> \o SplitEach(SubSeq(str, i + 1, Len(str)), seps)
    ELSE <<str>>

\* str.strip()
RECURSIVE Strip(_)
Strip(str) ==
    IF str # <<>> /\ str[1] \in Whitespace THEN Strip(Tail(str))
    ELSE IF str # <<>> /\ str[Len(str)] \in Whitespace
         THEN Strip(SubSeq(str, 1, Len(str) - 1))
         ELSE str

\* [p.strip() for p in pieces if p.strip()]
RECURSIVE StripNonEmpty(_)
StripNonEmpty(pieces) ==
    IF pieces = <<>> THEN <<>>
    ELSE (IF Strip(pieces[1]) # <<>> THEN <<Strip(pieces[1])>> ELSE <<>>)
         \o StripNonEmpty(Tail(pieces))

\* A slip in the loop: every vertex gets the command M.
RECURSIVE PolyCommandsAllMove(_, _)
PolyCommandsAllMove(points_list, i) ==
    IF i > Len(points_list) THEN <<>>
    ELSE << Join(<< <<"M">>, points_list[i], points_list[i + 1] >>) >>
         \o PolyCommandsAllMove(points_list, i + 2)

\* The loop "for i in range(0, len(points_list), 2)", from pair i on (1-based).
RECURSIVE PolyCommands(_, _)
PolyCommands(points_list, i) ==
    IF i > Len(points_list) THEN <<>>
    ELSE << Join(<< (IF i = 1 THEN <<"M">> ELSE <<"L">>),
                    points_list[i], points_list[i + 1] >>) >>
         \o PolyCommands(points_list, i + 2)

polygon_path(points, is_polyline) ==
    LET points_list == StripNonEmpty(SplitEach(points, Whitespace \cup {","}))
    IN  IF Len(points_list) % 2 # 0 THEN <<>>
        ELSE Join(PolyCommands(points_list, 1)
                  \o (IF ~is_polyline THEN << <<"Z">> >> ELSE <<>>))

convert_polygon(e, is_polyline) ==
    polygon_path(Get(e, "points", <<>>), is_polyline)

(***************************************************************************)
(* convert_element_to_path                                                 *)
(***************************************************************************)
TagLine == <<"l", "i", "n", "e">>

TagRect == <<"r", "e", "c", "t">>

TagCircle == <<"c", "i", "r", "c", "l", "e">>

TagEllipse == <<"e", "l", "l", "i", "p", "s", "e">>

TagPolygon == <<"p", "o", "l", "y", "g", "o", "n">>

TagPolyline == <<"p", "o", "l", "y", "l", "i", "n", "e">>

TagPath == <<"p", "a", "t", "h">>

\* ns = "http://www.w3.org/2000/svg", in the braces ElementTree puts around it.
SvgNs ==
    <<"{", "h", "t", "t", "p", ":", "/", "/",
     "w", "w", "w", ".", "w", "3", ".", "o", "r", "g", "/", "2", "0", "0", "0", "/", "s", "v", "g", "}">>

\* The exception an element's conversion propagates, where an element is
\* expected.
RaiseElement == [exception |-> TRUE]

\* The dispatch on elem_type: the path data, "" for any other tag.
ShapePathData(e) ==
    LET elem_type == LocalTag(e.tag)
    IN  CASE elem_type = TagLine     -> convert_line(e)
          [] elem_type = TagRect     -> convert_rect(e)
          [] elem_type = TagCircle   -> convert_circle(e)
          [] elem_type = TagEllipse  -> convert_ellipse(e)
          [] elem_type = TagPolygon  -> convert_polygon(e, FALSE)
          [] elem_type = TagPolyline -> convert_polygon(e, TRUE)
          [] OTHER -> <<>>

\* The attribs dictionary of the new path element.
PathAttribs(e, path_data) ==
    [n \in AttrNames |->
        CASE n = "d"              -> path_data
          [] n = "fill"           -> Get(e, "fill", <<>>)
          [] n = "stroke"         -> Get(e, "stroke", <<>>)
          [] n = "stroke-width"   -> Get(e, "stroke-width", Zero)
          [] n = "fill-rule"      -> e.attrib["fill-rule"]
          [] n = "stroke-linecap" -> e.attrib["stroke-linecap"]
          [] OTHER -> None]

convert_element_to_path(e) ==
    LET path_data == ShapePathData(e)
    IN  IF path_data = Raise THEN RaiseElement
        ELSE IF path_data # <<>>
             THEN Element(SvgNs \o TagPath, PathAttribs(e, path_data))
             ELSE NoneElement

(***************************************************************************)
(* Variables a program does not use keep the value Idle.                   *)
(***************************************************************************)
Idle == <<>>

colorVars == <<color, colorOut>>

unitVars == <<value, valueOut>>

polyVars == <<poly, isPolyline, polyOut>>

elemVars == <<elem, pathElem>>

avdVars == <<svgRoot, idx, vector>>

batchVars == <<files, fi, attempts, written, converted_count, reported>>

IdleColor == color = Idle /\ colorOut = Idle

IdleUnits == value = Idle /\ valueOut = Idle

IdlePoly == poly = Idle /\ isPolyline = FALSE /\ polyOut = Idle

IdleElem == elem = Idle /\ pathElem = Idle

IdleAvd == svgRoot = Idle /\ idx = 0 /\ vector = Idle

IdleBatch ==
    /\ files = Idle /\ fi = 0 /\ attempts = Idle /\ written = {}
    /\ converted_count = 0 /\ reported = -1

(***************************************************************************)
(* normalize_color, convert_units, convert_polygon and                     *)
(* convert_element_to_path, each called once on an input of a bounded set. *)
(***************************************************************************)
ColorAlphabet == {"#", "0", "a", "G"}

ColorExtras ==
    {None,
     <<"n", "o", "n", "e">>,
     <<"N", "o", "n", "e">>,
     <<"N", "O", "N", "E">>,
     <<"n", "o", "n", "E">>,
     <<"r", "e", "d">>,
     <<"#", "A", "b", "C">>,
     <<"#", "0", "F", "0">>,
     <<"#", "a", "B", "c", "D", "e", "F">>,
     <<"#", "0", "0", "a", "a", "b", "b", "c", "c">>,
     <<"#", "f", "f", "a", "a", "b", "b", "c", "c">>,
     <<"#", "a", "a", "b", "b", "c", "c", "F", "F">>,
     <<"#", "0", "0", "a", "a", "b", "b", "c", "c", "d", "d">>,
     <<"#", "0", "0", "0", "0", "0", "0">>,
     <<"#", "a", "b", "c", "\n">>,
     <<"#", "1", "1", "2", "2", "3", "3", "\n">>,
     <<"#", "0", "0", "2", "2", "3", "3", "4", "\n">>}

ColorInputs == StringsUpTo(ColorAlphabet, MaxColorLen) \cup ColorExtras

InitColor ==
    /\ pc = "color"
    /\ color \in ColorInputs
    /\ colorOut = Idle
    /\ IdleUnits /\ IdlePoly /\ IdleElem /\ IdleAvd /\ IdleBatch

NormalizeColor ==
    /\ pc = "color"
    /\ colorOut' = normalize_color(color)
    /\ pc' = "color_done"
    /\ UNCHANGED <<color, unitVars, polyVars, elemVars, avdVars, batchVars>>

NextColor == NormalizeColor

SpecColor == InitColor /\ [][NextColor]_vars

UnitAlphabet == {"1", ".", "p", "x", "-", "%"}

UnitExtras ==
    {<<"2", "4", "d", "p">>,
     <<"1", "2", "d", "p">>,
     <<"1", "0", "p", "x">>,
     <<"1", "0", "0", "%">>,
     <<"1", ".", "5", "e", "m">>,
     <<"3", ".", "2", "5">>,
     <<"0", ".", "5", "p", "x">>,
     <<"1", "e", "3">>}

UnitInputs == StringsUpTo(UnitAlphabet, MaxUnitLen) \cup UnitExtras

InitUnits ==
    /\ pc = "units"
    /\ value \in UnitInputs
    /\ valueOut = Idle
    /\ IdleColor /\ IdlePoly /\ IdleElem /\ IdleAvd /\ IdleBatch

ConvertUnits ==
    /\ pc = "units"
    /\ valueOut' = convert_units(value)
    /\ pc' = "units_done"
    /\ UNCHANGED <<value, colorVars, polyVars, elemVars, avdVars, batchVars>>

NextUnits == ConvertUnits

SpecUnits == InitUnits /\ [][NextUnits]_vars

PointsAlphabet == {" ", ",", "1", "2"}

PointsExtras ==
    {<<"0", ",", "0", " ", "1", "0", ",", "0", " ", "1", "0", ",", "1", "0">>,
     <<"0", ",", "0", " ", "1", "0">>,
     <<"1", ".", "5", ",", "2", " ", "3", ",", "4", ".", "5">>,
     <<"1", "\t", "2", "\n", "3", ",", " ", "4">>}

PointsInputs == StringsUpTo(PointsAlphabet, MaxPointsLen) \cup PointsExtras

InitPoly ==
    /\ pc = "poly"
    /\ poly \in PointsInputs
    /\ isPolyline \in BOOLEAN
    /\ polyOut = Idle
    /\ IdleColor /\ IdleUnits /\ IdleElem /\ IdleAvd /\ IdleBatch

ConvertPolygon ==
    /\ pc = "poly"
    /\ polyOut' = convert_polygon(Element(IF isPolyline THEN TagPolyline ELSE TagPolygon,
                                          ("points" :> poly) @@ NoAttrib),
                                  isPolyline)
    /\ pc' = "poly_done"
    /\ UNCHANGED <<poly, isPolyline, colorVars, unitVars, elemVars, avdVars, batchVars>>

NextPoly == ConvertPolygon

SpecPoly == InitPoly /\ [][NextPoly]_vars

(***************************************************************************)
(* convert_element_to_path called once on an element of a bounded set.     *)
(***************************************************************************)
\* Presentation attributes an element may carry.
Presentations ==
    {NoAttrib,
     ("fill" :> <<"#", "a", "b", "c">>) @@ ("stroke" :> <<"n", "o", "n", "e">>)
        @@ ("stroke-width" :> <<"2">>) @@ ("fill-rule" :> <<"e", "v", "e", "n", "o", "d", "d">>)
        @@ ("stroke-linecap" :> <<"r", "o", "u", "n", "d">>) @@ NoAttrib,
     ("fill-rule" :> <<"n", "o", "n", "z", "e", "r", "o">>) @@ ("stroke-linecap" :> <<"b", "e", "v", "e", "l">>)
        @@ NoAttrib}

\* attrib with the keys of over that are present in over taking its values.
With(attrib, over) ==
    [n \in AttrNames |-> IF over[n] # None THEN over[n] ELSE attrib[n]]

RectAttribs ==
    {("x" :> x) @@ ("width" :> <<"1", "0">>) @@ ("height" :> h)
        @@ ("rx" :> rx) @@ ("ry" :> ry) @@ NoAttrib :
        x \in {None, <<"1">>}, h \in {None, <<"1", "0">>},
        rx \in {None, <<>>, <<"0">>, <<"2">>},
        ry \in {None, <<>>, <<"0">>, <<"3">>, <<"x">>}}

CircleAttribs ==
    {("cx" :> cx) @@ ("cy" :> <<"2", "4">>) @@ ("r" :> r) @@ NoAttrib :
        cx \in {None, <<"2", "4">>},
        r \in {None, <<"0">>, <<"2", "0">>, <<"x">>}}

EllipseAttribs ==
    {("cx" :> <<"2", "4">>) @@ ("cy" :> <<"2", "4">>) @@ ("rx" :> rx) @@ ("ry" :> ry)
        @@ NoAttrib :
        rx \in {None, <<"2", "0">>}, ry \in {<<"1", "0">>, <<"x">>}}

LineAttribs ==
    {("x1" :> x1) @@ ("y1" :> y1) @@ ("x2" :> <<"3">>) @@ NoAttrib :
        x1 \in {None, <<>>, <<"1">>}, y1 \in {None, <<"2">>}}

PolyAttribs ==
    {("points" :> pts) @@ NoAttrib :
        pts \in {None, <<>>, <<" ", ",", " ">>,
                 <<"0", ",", "0", " ", "1", "0", ",", "0", " ", "1", "0", ",", "1", "0">>,
                 <<"0", ",", "0", " ", "1", "0">>}}

PathAttribsIn ==
    {("d" :> d) @@ NoAttrib : d \in {None, <<"M", "0", " ", "0", "L", "1", " ", "1">>}}

\* Local tags that are not one of the six shapes nor path.
OtherTags ==
    {<<"g">>, <<"m", "p", "a", "t", "h">>, <<"t", "e", "x", "t">>, <<"c", "l", "i", "p", "P", "a", "t", "h">>}

\* Local tag and attributes of the elements of the model.
ElementKinds ==
    ({TagRect} \X RectAttribs) \cup ({TagCircle} \X CircleAttribs)
    \cup ({TagEllipse} \X EllipseAttribs) \cup ({TagLine} \X LineAttribs)
    \cup ({TagPolygon, TagPolyline} \X PolyAttribs)
    \cup ({TagPath} \X PathAttribsIn) \cup (OtherTags \X {NoAttrib})

\* The elements: each kind, in the SVG namespace or in none, with each
\* presentation.
Elements ==
    {Element(ns \o k[1], With(k[2], pres)) :
        ns \in {<<>>, SvgNs}, k \in ElementKinds, pres \in Presentations}

InitElem ==
    /\ pc = "elem"
    /\ elem \in Elements
    /\ pathElem = Idle
    /\ IdleColor /\ IdleUnits /\ IdlePoly /\ IdleAvd /\ IdleBatch

ConvertElementToPath ==
    /\ pc = "elem"
    /\ pathElem' = convert_element_to_path(elem)
    /\ pc' = "elem_done"
    /\ UNCHANGED <<elem, colorVars, unitVars, polyVars, avdVars, batchVars>>

NextElem == ConvertElementToPath

SpecElem == InitElem /\ [][NextElem]_vars

(***************************************************************************)
(* convert_svg_to_avd.  svgRoot is the document: ok says whether           *)
(* ET.fromstring parses it, root is the root element and descendants is    *)
(* svg_root.findall(".//"), every descendant in document order.  The       *)
(* returned text is the rendering of vector; the model keeps the element.  *)
(***************************************************************************)
ShapeTags == {TagLine, TagRect, TagCircle, TagEllipse, TagPolygon, TagPolyline}

Default24 == <<"2", "4">>

\* str.split(): the pieces between runs of whitespace.
split(str) == StripNonEmpty(SplitEach(str, Whitespace))

\* A slip in the indices of the viewport: the origin tokens instead of the size.
viewport_from_origin(viewbox, i) ==
    IF Len(viewbox) >= 4 THEN viewbox[i - 2] ELSE Default24

\* viewbox[i] if len(viewbox) >= 4 else "24" (i is 1-based here).
viewport(viewbox, i) ==
    IF Len(viewbox) >= 4 THEN viewbox[i] ELSE Default24

\* The vector element with its attributes and no child.
NewVector(root) ==
    LET viewbox == split(Get(root, "viewBox", <<"0", " ", "0", " ", "2", "4", " ", "2", "4">>))
    IN  [attrib |->
            [width          |-> convert_units(Get(root, "width", <<"2", "4", "d", "p">>)),
             height         |-> convert_units(Get(root, "height", <<"2", "4", "d", "p">>)),
             viewportWidth  |-> viewport(viewbox, 3),
             viewportHeight |-> viewport(viewbox, 4)],
         children |-> <<>>]

LineCaps == {<<"r", "o", "u", "n", "d">>, <<"s", "q", "u", "a", "r", "e">>, <<"b", "u", "t", "t">>}

\* The avd_attribs of the path child made from element p.  src, the position
\* of the source element among the descendants, is bookkeeping.
AvdPath(p, src) ==
    [src |-> src,
     attrib |->
        [pathData      |-> Get(p, "d", <<>>),
         fillColor     |-> normalize_color(Get(p, "fill", <<"#", "0", "0", "0", "0", "0", "0">>)),
         strokeWidth   |-> Get(p, "stroke-width", Zero),
         strokeColor   |-> normalize_color(Get(p, "stroke", <<"#", "0", "0", "0", "0", "0", "0">>)),
         fillType      |-> IF p.attrib["fill-rule"] = <<"e", "v", "e", "n", "o", "d", "d">>
                           THEN <<"e", "v", "e", "n", "O", "d", "d">> ELSE None,
         strokeLineCap |-> IF p.attrib["stroke-linecap"] \in LineCaps
                           THEN p.attrib["stroke-linecap"] ELSE None]]

\* What the loop body does with path_elem, the value convert_element_to_path
\* returned for the shape at position i.
ShapeChildren(path_elem, i) ==
    IF path_elem = RaiseElement
    THEN [raised |-> TRUE, children |-> <<>>]
    ELSE IF Truth(path_elem)
         THEN [raised |-> FALSE, children |-> <<AvdPath(path_elem, i)>>]
         ELSE [raised |-> FALSE, children |-> <<>>]

\* One pass of the loop body for the element at position i: the children it
\* appends to vector, or raised when the element's conversion raises.
ElementChildren(e, i) ==
    IF LocalTag(e.tag) \in ShapeTags
    THEN ShapeChildren(convert_element_to_path(e), i)
    ELSE IF EndsWith(e.tag, TagPath)
         THEN [raised |-> FALSE, children |-> <<AvdPath(e, i)>>]
         ELSE [raised |-> FALSE, children |-> <<>>]

RootAttribs ==
    {("viewBox" :> vb) @@ ("width" :> w) @@ ("height" :> w) @@ NoAttrib :
        vb \in {None, <<"0", " ", "0", " ", "4", "8", " ", "4", "8">>},
        w \in {None, <<"4", "8", "p", "x">>}}

\* The descendants the documents of the model are made of.
DocElements ==
    {Element(SvgNs \o TagCircle,
             ("cx" :> <<"2", "4">>) @@ ("cy" :> <<"2", "4">>) @@ ("r" :> <<"2", "0">>)
                @@ NoAttrib),
     Element(TagRect,
             ("width" :> <<"1", "0">>) @@ ("height" :> <<"1", "0">>)
                @@ ("fill" :> <<"#", "a", "b", "c">>) @@ NoAttrib),
     Element(TagRect, ("width" :> <<"x">>) @@ NoAttrib),
     Element(TagLine, ("x2" :> <<"3">>) @@ ("stroke-linecap" :> <<"r", "o", "u", "n", "d">>) @@ NoAttrib),
     Element(TagPolygon, ("points" :> <<"0", ",", "0", " ", "1", "0", ",", "0", " ", "1", "0", ",", "1", "0">>) @@ NoAttrib),
     Element(TagPolyline, ("points" :> <<"0", ",", "0", " ", "1", "0">>) @@ NoAttrib),
     Element(SvgNs \o TagPath,
             ("d" :> <<"M", "0", " ", "0", "L", "1", " ", "1">>) @@ ("fill-rule" :> <<"e", "v", "e", "n", "o", "d", "d">>) @@ NoAttrib),
     Element(SvgNs \o <<"g">>, NoAttrib),
     Element(<<"m", "p", "a", "t", "h">>, NoAttrib),
     Element(<<"c", "l", "i", "p", "P", "a", "t", "h">>, NoAttrib)}

SeqsUpTo(S, n) == UNION {[1..k -> S] : k \in 0..n}

Documents ==
    {[ok |-> ok, root |-> Element(SvgNs \o <<"s", "v", "g">>, a), descendants |-> ds] :
        ok \in BOOLEAN, a \in RootAttribs, ds \in SeqsUpTo(DocElements, MaxElems)}

InitAvd ==
    /\ pc = "avd_parse"
    /\ svgRoot \in Documents
    /\ idx = 0
    /\ vector = Idle
    /\ IdleColor /\ IdleUnits /\ IdlePoly /\ IdleElem /\ IdleBatch

\* svg_root = ET.fromstring(svg_content) and the making of vector.
ParseSvg ==
    /\ pc = "avd_parse"
    /\ IF svgRoot.ok
       THEN /\ vector' = NewVector(svgRoot.root)
            /\ idx' = 1
            /\ pc' = "avd_loop"
       ELSE /\ pc' = "avd_raised"
            /\ UNCHANGED <<vector, idx>>
    /\ UNCHANGED <<svgRoot, colorVars, unitVars, polyVars, elemVars, batchVars>>

\* One pass of "for elem in svg_root.findall(".//")".
ConvertElement ==
    /\ pc = "avd_loop"
    /\ idx <= Len(svgRoot.descendants)
    /\ LET out == ElementChildren(svgRoot.descendants[idx], idx)
       IN  IF out.raised
           THEN /\ pc' = "avd_raised"
                /\ UNCHANGED <<vector, idx>>
           ELSE /\ vector' = [vector EXCEPT !.children = @ \o out.children]
                /\ idx' = idx + 1
                /\ pc' = "avd_loop"
    /\ UNCHANGED <<svgRoot, colorVars, unitVars, polyVars, elemVars, batchVars>>

\* The loop is over: vector is rendered and returned.
ReturnAvd ==
    /\ pc = "avd_loop"
    /\ idx > Len(svgRoot.descendants)
    /\ pc' = "avd_done"
    /\ UNCHANGED <<svgRoot, idx, vector, colorVars, unitVars, polyVars, elemVars, batchVars>>

NextAvd == ParseSvg \/ ConvertElement \/ ReturnAvd

SpecAvd == InitAvd /\ [][NextAvd]_vars

\* The documents whose viewBox ranges over every short string.
ViewBoxAlphabet == {" ", "4", "8"}

ViewBoxExtras ==
    {None, <<"0", " ", "0", " ", "4", "8", " ", "4", "8">>, <<"0", ",", "0", ",", "4", "8", ",", "4", "8">>, <<"1", " ", "2", " ", "3", " ", "4", " ", "5">>,
     <<"1", "\t", "2", "\n", " ", "3", "\r", "4">>}

ViewBoxDocuments ==
    {[ok |-> TRUE,
      root |-> Element(SvgNs \o <<"s", "v", "g">>, ("viewBox" :> vb) @@ NoAttrib),
      descendants |-> <<Element(TagPath, NoAttrib)>>] :
        vb \in StringsUpTo(ViewBoxAlphabet, MaxViewBoxLen) \cup ViewBoxExtras}

InitViewBox ==
    /\ pc = "avd_parse"
    /\ svgRoot \in ViewBoxDocuments
    /\ idx = 0
    /\ vector = Idle
    /\ IdleColor /\ IdleUnits /\ IdlePoly /\ IdleElem /\ IdleBatch

SpecViewBox == InitViewBox /\ [][NextAvd]_vars

(***************************************************************************)
(* batch_convert.  files is os.listdir(input_dir): each entry has its name *)
(* and what opening it for reading, converting its content and writing the *)
(* output file will do.  print() and os.makedirs() are taken to succeed.   *)
(***************************************************************************)
\* convert_svg_to_avd as a function of the document: the children of vector,
\* from the descendant at position i on.
RECURSIVE AvdChildren(_, _)
AvdChildren(ds, i) ==
    IF i > Len(ds) THEN [raised |-> FALSE, children |-> <<>>]
    ELSE LET out == ElementChildren(ds[i], i)
         IN  IF out.raised THEN out
             ELSE LET rest == AvdChildren(ds, i + 1)
                  IN  [raised |-> rest.raised,
                       children |-> IF rest.raised THEN <<>>
                                    ELSE out.children \o rest.children]

\* Whether convert_svg_to_avd(svg_content) raises.
ConversionRaises(doc) ==
    \/ ~doc.ok
    \/ AvdChildren(doc.descendants, 1).raised

SvgRoot == Element(SvgNs \o <<"s", "v", "g">>, NoAttrib)

GoodDocument ==
    [ok |-> TRUE, root |-> SvgRoot,
     descendants |-> <<Element(SvgNs \o TagPath, ("d" :> <<"M", "0", " ", "0", "L", "1", " ", "1">>) @@ NoAttrib)>>]

MalformedDocument == [ok |-> FALSE, root |-> SvgRoot, descendants |-> <<>>]

BadNumberDocument ==
    [ok |-> TRUE, root |-> SvgRoot,
     descendants |-> <<Element(SvgNs \o TagRect, ("width" :> <<"x">>) @@ NoAttrib)>>]

DotSvg == <<".", "s", "v", "g">>

\* What a listing entry is: its extension, whether it can be read, its
\* content, whether its output can be written.
FileFates ==
    {[ext |-> DotSvg, readable |-> TRUE, content |-> GoodDocument, writable |-> TRUE],
     [ext |-> <<".", "S", "V", "G">>, readable |-> TRUE, content |-> GoodDocument, writable |-> TRUE],
     [ext |-> <<".", "t", "x", "t">>, readable |-> TRUE, content |-> GoodDocument, writable |-> TRUE],
     [ext |-> DotSvg, readable |-> FALSE, content |-> GoodDocument, writable |-> TRUE],
     [ext |-> DotSvg, readable |-> TRUE, content |-> MalformedDocument, writable |-> TRUE],
     [ext |-> DotSvg, readable |-> TRUE, content |-> BadNumberDocument, writable |-> TRUE],
     [ext |-> DotSvg, readable |-> TRUE, content |-> GoodDocument, writable |-> FALSE]}

\* The entry at position i: the names of a listing are distinct.
FileAt(i, fate) ==
    [name |-> <<"f", ToString(i)>> \o fate.ext, readable |-> fate.readable,
     content |-> fate.content, writable |-> fate.writable]

Listings ==
    UNION {{[i \in 1..k |-> FileAt(i, fates[i])] : fates \in [1..k -> FileFates]} :
            k \in 0..MaxFiles}

\* filename.lower().endswith(".svg")
IsSvgName(name) == EndsWith(Lower(name), DotSvg)

\* A slip in the try block: the counter is incremented before the write.
ConvertedBeforeWrite(f) ==
    /\ f.readable
    /\ ~ConversionRaises(f.content)

\* The try block reaches "converted_count += 1": the read, the conversion
\* and the write raised nothing.
Converted(f) ==
    /\ f.readable
    /\ ~ConversionRaises(f.content)
    /\ f.writable

InitBatch ==
    /\ pc = "batch_start"
    /\ files \in Listings
    /\ fi = 0
    /\ attempts = [i \in 1..Len(files) |-> 0]
    /\ written = {}
    /\ converted_count = 0
    /\ reported = -1
    /\ IdleColor /\ IdleUnits /\ IdlePoly /\ IdleElem /\ IdleAvd

\* The output directory is there or made; converted_count = 0.
BatchStart ==
    /\ pc = "batch_start"
    /\ converted_count' = 0
    /\ fi' = 1
    /\ pc' = "batch_loop"
    /\ UNCHANGED <<files, attempts, written, reported,
                   colorVars, unitVars, polyVars, elemVars, avdVars>>

\* One pass of "for filename in os.listdir(input_dir)": an exception of the
\* try block is caught and the loop goes on.
BatchFile ==
    /\ pc = "batch_loop"
    /\ fi <= Len(files)
    /\ IF IsSvgName(files[fi].name)
       THEN /\ attempts' = [attempts EXCEPT ![fi] = @ + 1]
            /\ IF Converted(files[fi])
               THEN /\ written' = written \cup {fi}
                    /\ converted_count' = converted_count + 1
               ELSE UNCHANGED <<written, converted_count>>
       ELSE UNCHANGED <<attempts, written, converted_count>>
    /\ fi' = fi + 1
    /\ UNCHANGED <<pc, files, reported,
                   colorVars, unitVars, polyVars, elemVars, avdVars>>

\* print(f"\nConversion complete! {converted_count} files converted.")
BatchReport ==
    /\ pc = "batch_loop"
    /\ fi > Len(files)
    /\ reported' = converted_count
    /\ pc' = "batch_done"
    /\ UNCHANGED <<files, fi, attempts, written, converted_count,
                   colorVars, unitVars, polyVars, elemVars, avdVars>>

NextBatch == BatchStart \/ BatchFile \/ BatchReport

SpecBatch == InitBatch /\ [][NextBatch]_vars

\* The interpreter runs the program on: a step that can be taken is taken.
SpecBatchFair == SpecBatch /\ WF_vars(NextBatch)

(***************************************************************************)
(* Every program of the module.                                            *)
(***************************************************************************)
Init ==
    \/ InitColor \/ InitUnits \/ InitPoly \/ InitElem
    \/ InitAvd \/ InitViewBox \/ InitBatch

Next ==
    \/ NextColor \/ NextUnits \/ NextPoly \/ NextElem
    \/ NextAvd \/ NextBatch

Spec == Init /\ [][Next]_vars


(***************************************************************************)
(* Properties of normalize_color.                                          *)
(***************************************************************************)
\* "#" followed by exactly n hex digits.
IsHexColor(c, n) ==
    /\ c # None
    /\ Len(c) = n + 1
    /\ c[1] = "#"
    /\ \A i \in 2..(n + 1) : c[i] \in HexDigits

\* C2: a "#rrggbb" input is returned with "FF" appended, and a "#rgb" input
\* as its digit-doubled six-digit form with "FF" appended.
C2_OpaqueAlphaAppended ==
    pc = "color_done" =>
        /\ IsHexColor(color, 6) => colorOut = color \o <<"F", "F">>
        /\ IsHexColor(color, 3) =>
               colorOut = <<"#", color[2], color[2], color[3], color[3],
                            color[4], color[4], "F", "F">>

CanonicalColorInput(c) ==
    \/ c = None
    \/ c = <<>>
    \/ Lower(c) = <<"n", "o", "n", "e">>
    \/ IsHexColor(c, 3)
    \/ IsHexColor(c, 6)

DP == <<"d", "p">>

\* C4 as stated: whatever the input, the result ends with "dp".
C4_AlwaysEndsWithDp ==
    pc = "units_done" => EndsWith(valueOut, DP)

\* A plain non-negative number: digits with at most one ".", at least one digit.
PlainNumber(v) ==
    /\ \A i \in 1..Len(v) : v[i] \in Digits \cup {"."}
    /\ Cardinality({i \in 1..Len(v) : v[i] = "."}) <= 1
    /\ \E i \in 1..Len(v) : v[i] \in Digits

\* C4 (amended): an input that ends with "px" or is a plain non-negative
\* number yields a result ending with "dp"; any other input is returned
\* unchanged; and no result ends with "px".
C4_PxAndNumbersEndWithDp ==
    pc = "units_done" =>
        /\ IF EndsWith(value, <<"p", "x">>) \/ PlainNumber(value)
           THEN EndsWith(valueOut, DP)
           ELSE valueOut = value
        /\ ~EndsWith(valueOut, <<"p", "x">>)

\* C4 witness: a bare number with a decimal point got the suffix, and so did
\* a px value.
C4_Witness ==
    /\ pc = "units_done"
    /\ \/ value = <<"1", ".", "1">> /\ valueOut = <<"1", ".", "1", "d", "p">>
       \/ value = <<"1", "p", "x">> /\ valueOut = <<"1", "d", "p">>

(***************************************************************************)
(* Properties of convert_polygon.                                          *)
(***************************************************************************)
\* The tokens of a string: the maximal runs of characters that are not in
\* seps.  cur is the run being read.
RECURSIVE RunTokens(_, _, _)
RunTokens(str, cur, seps) ==
    IF str = <<>>
    THEN IF cur = <<>> THEN <<>> ELSE <<cur>>
    ELSE IF str[1] \in seps
         THEN (IF cur = <<>> THEN <<>> ELSE <<cur>>) \o RunTokens(Tail(str), <<>>, seps)
         ELSE RunTokens(Tail(str), Append(cur, str[1]), seps)

\* " L xi yi" for the vertices from token i on.
RECURSIVE LineTos(_, _)
LineTos(toks, i) ==
    IF i > Len(toks) THEN <<>>
    ELSE <<" ", "L", " ">> \o toks[i] \o <<" ">> \o toks[i + 1] \o LineTos(toks, i + 2)

\* C6: an odd token count gives the empty string; an even count with at
\* least one vertex gives "M x0 y0", then " L xi yi" for each later vertex in
\* order, then " Z" for a polygon and nothing for a polyline.
C6_PolygonPath ==
    pc = "poly_done" =>
        LET toks == RunTokens(poly, <<>>, Whitespace \cup {","})
        IN  /\ Len(toks) % 2 = 1 => polyOut = <<>>
            /\ (Len(toks) % 2 = 0 /\ Len(toks) >= 2) =>
                   polyOut = <<"M", " ">> \o toks[1] \o <<" ">> \o toks[2]
                             \o LineTos(toks, 3)
                             \o (IF isPolyline THEN <<>> ELSE <<" ", "Z">>)

\* C6 witness: a polygon of two vertices, its tokens separated by runs of
\* mixed whitespace and commas, was converted to a closed path.
C6_Witness ==
    /\ pc = "poly_done"
    /\ ~isPolyline
    /\ poly = <<"1", "\t", "2", "\n", "3", ",", " ", "4">>
    /\ polyOut = <<"M", " ", "1", " ", "2", " ", "L", " ", "3", " ", "4", " ", "Z">>

(***************************************************************************)
(* Properties of convert_rect and convert_element_to_path.                 *)
(***************************************************************************)
\* The element with its ry attribute set to the text of its rx attribute.
WithRyFromRx(e) ==
    [e EXCEPT !.attrib = [@ EXCEPT !["ry"] = Get(e, "rx", Zero)]]

\* C5: a rect whose ry attribute is absent or empty is converted with
\* ry = rx: its path is the path of the same rect with ry set to rx.
C5_RyDefaultsToRx ==
    (/\ pc = "elem_done"
     /\ LocalTag(elem.tag) = TagRect
     /\ elem.attrib["ry"] \in {None, <<>>}
     /\ pathElem # RaiseElement)
    => /\ pathElem # NoneElement
       /\ pathElem.attrib["d"] = convert_rect(WithRyFromRx(elem))

\* C10: a path element returned by convert_element_to_path has path data
\* that begins with the move command "M " and a start point.
C10_PathDataStartsWithMove ==
    (/\ pc = "elem_done"
     /\ pathElem # RaiseElement
     /\ pathElem # NoneElement)
    => /\ Len(pathElem.attrib["d"]) >= 3
       /\ SubSeq(pathElem.attrib["d"], 1, 2) = <<"M", " ">>

(***************************************************************************)
(* Properties of convert_svg_to_avd.                                       *)
(***************************************************************************)
\* The positions of the children of vector made from the descendant at i.
ChildrenOf(i) == {j \in 1..Len(vector.children) : vector.children[j].src = i}

\* C1: in the returned vector every shape element whose converted path data
\* is non-empty has exactly one path child, whose pathData is that path data.
C1_ShapeYieldsOnePath ==
    pc = "avd_done" =>
        \A i \in 1..Len(svgRoot.descendants) :
            LET e == svgRoot.descendants[i]
            IN  (LocalTag(e.tag) \in ShapeTags /\ ShapePathData(e) \notin {<<>>, Raise})
                => /\ Cardinality(ChildrenOf(i)) = 1
                   /\ \A j \in ChildrenOf(i) :
                          vector.children[j].attrib.pathData = ShapePathData(e)

\* C7: a descendant whose local tag is none of the six shapes nor path has no
\* child in vector.
C7_OnlySevenTagsYieldPaths ==
    pc \in {"avd_loop", "avd_done"} =>
        \A j \in 1..Len(vector.children) :
            LocalTag(svgRoot.descendants[vector.children[j].src].tag)
                \in ShapeTags \cup {TagPath}

\* C8: viewportWidth and viewportHeight are the third and fourth
\* whitespace-separated tokens of viewBox when it has at least four, and
\* both "24" when viewBox is absent or has fewer.
C8_ViewportFromViewBox ==
    pc \in {"avd_loop", "avd_done"} =>
        LET vb   == svgRoot.root.attrib["viewBox"]
            toks == IF vb = None THEN <<>> ELSE RunTokens(vb, <<>>, Whitespace)
        IN  IF Len(toks) >= 4
            THEN /\ vector.attrib.viewportWidth = toks[3]
                 /\ vector.attrib.viewportHeight = toks[4]
            ELSE /\ vector.attrib.viewportWidth = <<"2", "4">>
                 /\ vector.attrib.viewportHeight = <<"2", "4">>

\* C8 witness: a viewBox of four tokens with an origin that is not its size
\* was converted, and one of three tokens fell back to "24".
C8_Witness ==
    /\ pc = "avd_done"
    /\ \/ /\ svgRoot.root.attrib["viewBox"] = <<"4", " ", "4", " ", "8", " ", "4">>
          /\ vector.attrib.viewportWidth = <<"8">>
          /\ vector.attrib.viewportHeight = <<"4">>
       \/ /\ svgRoot.root.attrib["viewBox"] = <<"8", " ", "8", " ", "4">>
          /\ vector.attrib.viewportWidth = <<"2", "4">>

(***************************************************************************)
(* Properties of batch_convert.                                            *)
(***************************************************************************)
\* The entries whose read, conversion and write all succeed.
Successes ==
    {i \in 1..Len(files) :
        /\ IsSvgName(files[i].name)
        /\ files[i].readable
        /\ ~ConversionRaises(files[i].content)
        /\ files[i].writable}

\* At the end every .svg entry was attempted exactly once (a failure of an
\* earlier entry notwithstanding), nothing else was, and the count reported
\* is the number of entries whose read, conversion and write succeeded.
BatchResult ==
    pc = "batch_done" =>
        /\ \A i \in 1..Len(files) :
               attempts[i] = IF IsSvgName(files[i].name) THEN 1 ELSE 0
        /\ written = Successes
        /\ reported = Cardinality(Successes)

\* C9: the loop terminates, and then every .svg entry was attempted exactly
\* once and the reported count is the number of successes.
C9_BatchCountsSuccesses == []BatchResult /\ <>(pc = "batch_done")

\* C9 witness: a .svg entry failed, a later one was converted, and the batch
\* ended reporting the successes.
C9_Witness ==
    /\ pc = "batch_done"
    /\ \E i, j \in 1..Len(files) :
           /\ i < j
           /\ IsSvgName(files[i].name) /\ i \notin written /\ attempts[i] = 1
           /\ j \in written
    /\ reported = Cardinality(written)

====
